---- MODULE Spec2Model ----
(***************************************************************************)
(* Word indexing and search of the book reader (public/indexer.js,         *)
(* public/search.js, public/main.js).                                      *)
(*                                                                         *)
(* Strings are sequences of one-character strings, so that tokenizing,     *)
(* joining and substring search are computed and not assumed.  Lengths in  *)
(* viewport space are fixed-point integers in 1/Unit pixel: Unit is a      *)
(* multiple of the scale's denominator and of every text length, so the    *)
(* divisions of calculateBoundingBox are exact.  Native coordinates are    *)
(* fixed-point too, in 1/NativeDen of a native unit.                       *)
(***************************************************************************)
EXTENDS Integers, Sequences, FiniteSets, TLC

VARIABLES
    doc,              \* pdfDoc: the loaded document, a sequence of pages
    words,            \* PDFIndexer.words
    sentenceBuffer,   \* PDFIndexer.sentenceBuffer
    customTolerance,  \* PDFIndexer.customTolerance (tenths of a pixel, or Null)
    lastDetectedRows, \* PDFIndexer.lastDetectedRows
    db,               \* the rows of the IndexedDB table db.words
    pc,               \* where the current indexPDF call stands
    pageNum,          \* the loop variable of indexPDF
    returned,         \* the value the last completed indexPDF resolved with
    nRuns,            \* number of indexPDF calls started
    emitted,          \* history: every word text pushed by processRow, in order
    shown,            \* what PDFViewer showed when its last indexing handler ended
    storeError,       \* the last storeWords call to end went through its catch
    dbBefore,         \* history: db when the last storeWords call began
    pdfLoaded,        \* PDFViewer.pdfDoc is not null
    abandoned,        \* history: resetViewer came while the run was between pages
    pc2,              \* where a second indexPDF call, begun during the first, stands
    pageNum2,         \* the loop variable of the second call
    returned2,        \* the value the second call resolved with
    custom2,          \* history: customTolerance when the second call began
    sWords,           \* PDFSearch.words
    isIndexBuilt,     \* PDFSearch.isIndexBuilt
    sIndex,           \* PDFSearch.index: Null, or <<n>> for an index over n records
    spc,              \* where a PDFSearch.refresh call stands
    everBuilt,        \* history: the engine has had its index built
    initialized,      \* what the last PDFSearch.initialize call returned, "none" without
    lastCall,         \* history: the way the last PDFSearch.search call went
    searchStatus,     \* the status performSearch showed for it, "none" without
    searchTerm,       \* the argument of the last PDFSearch.search call
    lunrHits,         \* what index.search returned for the last query
    results,          \* what PDFSearch.search returned for the last query
    currentSearchResults, \* PDFViewer.currentSearchResults
    highlightDots,    \* the results whose dots are in the highlighter's overlay
    manualRowBoundaries, \* PDFViewer.manualRowBoundaries, in 1/Unit pixel
    manualRowMode,    \* PDFViewer.manualRowMode
    editorOpen,       \* the element #row-editing-interface is in the document
    clickListeners,   \* number of click listeners the editor has put on the canvas
    currentPage,      \* PDFViewer.currentPage
    totalPages,       \* PDFViewer.totalPages
    viewerActive,     \* #viewer-section has the class "active"
    keydownListeners  \* number of keydown listeners this viewer has put on document

vars == <<doc, words, sentenceBuffer, customTolerance, lastDetectedRows, db, pc,
          pageNum, returned, nRuns, emitted, shown, storeError, dbBefore,
          pdfLoaded, abandoned, pc2, pageNum2, returned2, custom2, sWords,
          isIndexBuilt, sIndex, spc, everBuilt, initialized, lastCall,
          searchStatus, searchTerm, lunrHits, results, currentSearchResults,
          highlightDots, manualRowBoundaries, manualRowMode,
          editorOpen, clickListeners, currentPage, totalPages, viewerActive, keydownListeners>>

\* the second, overlapping call
overlapVars == <<pc2, pageNum2, returned2, custom2>>

indexerVars == <<doc, words, sentenceBuffer, customTolerance, lastDetectedRows,
                 db, pc, pageNum, returned, nRuns, emitted, shown, storeError,
                 dbBefore, pdfLoaded, abandoned, pc2, pageNum2, returned2,
                 custom2, manualRowBoundaries, manualRowMode, editorOpen,
                 clickListeners,
                 currentPage, totalPages, viewerActive, keydownListeners>>

\* the manual row editor
editorVars == <<manualRowBoundaries, manualRowMode, editorOpen, clickListeners>>

\* page navigation
navVars == <<currentPage, totalPages, viewerActive, keydownListeners>>

\* the search engine
engineVars == <<sWords, isIndexBuilt, sIndex, spc, everBuilt, initialized,
                lastCall, searchStatus, searchTerm, lunrHits, results>>

\* the viewer's results and their highlights
highlightVars == <<currentSearchResults, highlightDots>>

searchVars == <<engineVars, highlightVars>>

---------------------------------------------------------------------------
(* Bounds *)

MaxPages == 2
MaxRuns == 2
MaxHits == 2
MaxScore == 2

(* Program constants *)

ScaleNum == 3
ScaleDen == 2
FallbackHeight == 12
MinTolerance == 1
DefaultViewerTolerance == 10
WideTolerance == 20

\* null and undefined; a number that may be null is held as <<n>>
Null == <<>>
Undefined == <<"undefined">>

---------------------------------------------------------------------------
(* Strings *)

IsWhitespace(c) == c = " "

SentenceTerminators == {".", "!", "?"}

RECURSIVE SplitOnWhitespace(_, _, _)
\* text.split(/\s+/): the pieces between runs of whitespace, empty ones kept
SplitOnWhitespace(text, i, cur) ==
    IF i > Len(text) THEN <<cur>>
    ELSE IF IsWhitespace(text[i])
         THEN IF i > 1 /\ IsWhitespace(text[i - 1])
              THEN SplitOnWhitespace(text, i + 1, cur)
              ELSE <<cur>> \o SplitOnWhitespace(text, i + 1, <<>>)
         ELSE SplitOnWhitespace(text, i + 1, Append(cur, text[i]))

NonEmpty(w) == Len(w) > 0

TokenizeText(text) == SelectSeq(SplitOnWhitespace(text, 1, <<>>), NonEmpty)

RECURSIVE TrimLeft(_)
TrimLeft(w) ==
    IF Len(w) > 0 /\ IsWhitespace(w[1]) THEN TrimLeft(Tail(w)) ELSE w

RECURSIVE TrimRight(_)
TrimRight(w) ==
    IF Len(w) > 0 /\ IsWhitespace(w[Len(w)])
    THEN TrimRight(SubSeq(w, 1, Len(w) - 1))
    ELSE w

Trim(w) == TrimRight(TrimLeft(w))

\* only the full stop taken as the end of a sentence
IsSentenceEnd_PeriodOnly(word) == Len(word) > 0 /\ word[Len(word)] = "."

IsSentenceEnd(word) == Len(word) > 0 /\ word[Len(word)] \in SentenceTerminators

RECURSIVE Join(_)
\* Array.prototype.join(' ')
Join(ws) ==
    IF Len(ws) = 0 THEN <<>>
    ELSE IF Len(ws) = 1 THEN ws[1]
    ELSE ws[1] \o <<" ">> \o Join(Tail(ws))

RECURSIVE IndexOfFrom(_, _, _)
IndexOfFrom(full, word, i) ==
    IF i + Len(word) > Len(full) THEN -1
    ELSE IF SubSeq(full, i + 1, i + Len(word)) = word THEN i
    ELSE IndexOfFrom(full, word, i + 1)

RECURSIVE LastIndexOfFrom(_, _, _)
LastIndexOfFrom(full, word, i) ==
    IF i < 0 THEN -1
    ELSE IF SubSeq(full, i + 1, i + Len(word)) = word THEN i
    ELSE LastIndexOfFrom(full, word, i - 1)

\* the place of the last occurrence, as lastIndexOf gives it
IndexOf_Last(full, word) == LastIndexOfFrom(full, word, Len(full) - Len(word))

\* String.prototype.indexOf: the 0-based place of the first occurrence, or -1
IndexOf(full, word) == IndexOfFrom(full, word, 0)

---------------------------------------------------------------------------
(* Numbers *)

Abs(n) == IF n < 0 THEN -n ELSE n

RECURSIVE GCD(_, _)
GCD(a, b) == IF b = 0 THEN a ELSE GCD(b, a % b)

LCM(a, b) == (a * b) \div GCD(a, b)

RECURSIVE SumSeq(_)
SumSeq(s) == IF Len(s) = 0 THEN 0 ELSE Head(s) + SumSeq(Tail(s))

RECURSIVE InsertStable(_, _, _)
InsertStable(sorted, it, key) ==
    IF Len(sorted) = 0 THEN <<it>>
    ELSE IF sorted[Len(sorted)][key] <= it[key] THEN Append(sorted, it)
    ELSE Append(InsertStable(SubSeq(sorted, 1, Len(sorted) - 1), it, key),
                sorted[Len(sorted)])

RECURSIVE SortBy(_, _)
\* Array.prototype.sort((a, b) => a[key] - b[key]): ascending and stable
SortBy(s, key) ==
    IF Len(s) = 0 THEN <<>>
    ELSE InsertStable(SortBy(SubSeq(s, 1, Len(s) - 1), key), s[Len(s)], key)

---------------------------------------------------------------------------
(* The document: what pdfDoc.getPage and page.getTextContent deliver *)

TextA == <<"a">>
TextBDot == <<"b", ".">>
TextAB == <<"a", " ", "b">>
TextPadded == <<" ", "a", "!", " ">>
TextBlank == <<" ", " ">>
TextAA == <<"a", " ", "a">>

ItemTexts == {TextA, TextBDot, TextAB, TextPadded, TextBlank, TextAA}

RECURSIVE LCMOfSet(_)
LCMOfSet(S) ==
    IF S = {} THEN 1
    ELSE LET n == CHOOSE m \in S : TRUE IN LCM(n, LCMOfSet(S \ {n}))

\* transform[4] and transform[5] are held in 1/NativeDen of a native unit
NativeDen == 15

\* 1 pixel, in the fixed-point unit of viewport lengths
Unit == LCM(ScaleDen * NativeDen, LCMOfSet({Len(t) : t \in ItemTexts}))

\* a text item anchored at (x3 / NativeDen, y3 / NativeDen)
TextItemAt(s, x3, y3, w, h) ==
    [str |-> s, tx |-> x3, ty |-> y3, width |-> w, height |-> h]

\* a text item anchored at whole native units
TextItem(s, x, y, w, h) == TextItemAt(s, x * NativeDen, y * NativeDen, w, h)

\* fail: where processing the page throws before any row is reached: "getPage"
\* and "getTextContent" reject, "transform" is an item without a transform
\* array; "none" otherwise
Page(f, its) == [fail |-> f, items |-> its, viewHeight |-> 10 * NativeDen]

PageChoices ==
    { Page("none", <<>>),
      Page("getPage", <<>>),
      Page("getTextContent", <<>>),
      Page("transform", <<>>),
      Page("none", <<TextItem(TextBlank, 0, 5, 4, 0), TextItem(TextAB, 0, 5, 12, 10)>>),
      Page("none", <<TextItem(TextA, 0, 5, 6, 10), TextItem(TextBDot, 1, 5, 6, 0)>>),
      Page("none", <<TextItem(TextBDot, 1, 3, 0, 10), TextItem(TextAB, 1, 5, 12, 30)>>),
      Page("none", <<TextItem(TextPadded, 2, 5, 8, 10), TextItem(TextA, 0, 5, 6, 10)>>),
      Page("none", <<TextItem(Undefined, 0, 5, 6, 10), TextItem(TextA, 1, 5, 6, 10)>>) }

Documents ==
    UNION { [1..n -> PageChoices] : n \in 1..MaxPages }

ToleranceChoices == {DefaultViewerTolerance, WideTolerance}

---------------------------------------------------------------------------
(* Geometry *)

\* viewport.scale, in 1/Unit pixel per 1/NativeDen of a native unit
PxScale == (ScaleNum * Unit) \div (ScaleDen * NativeDen)

\* page.getViewport({ scale }) of an unrotated page: transform
\* [scale, 0, 0, -scale, 0, scale * viewHeight]
GetViewport(page) == [height |-> page.viewHeight]

\* viewport.convertToViewportPoint(x, y)
ConvertToViewportPoint(viewport, x, y) ==
    <<x * PxScale, (viewport.height - y) * PxScale>>

ProjectedX(item, viewport) == ConvertToViewportPoint(viewport, item.tx, item.ty)[1]

ProjectedY(item, viewport) == ConvertToViewportPoint(viewport, item.ty, item.tx)[2]

---------------------------------------------------------------------------
(* groupTextItemsByRows *)

WithCoords(item, viewport) ==
    [str |-> item.str, tx |-> item.tx, ty |-> item.ty, width |-> item.width,
     height |-> item.height,
     x |-> ProjectedX(item, viewport), y |-> ProjectedY(item, viewport)]

IsPositive(h) == h > 0

\* a custom tolerance of 0 taken as none
RowTolerance_ZeroIsUnset(items, custom) ==
    IF custom # Null /\ custom[1] # 0 THEN [num |-> custom[1], den |-> 10]
    ELSE LET heights == SelectSeq([i \in 1..Len(items) |-> items[i].height], IsPositive)
             avgNum == IF Len(heights) > 0 THEN SumSeq(heights) ELSE FallbackHeight
             avgDen == IF Len(heights) > 0 THEN Len(heights) ELSE 1
         IN  IF avgNum >= MinTolerance * 10 * avgDen
             THEN [num |-> avgNum, den |-> 10 * avgDen]
             ELSE [num |-> MinTolerance, den |-> 1]

\* the tolerance in pixels, as the fraction num / den
RowTolerance(items, custom) ==
    IF custom # Null THEN [num |-> custom[1], den |-> 10]
    ELSE LET heights == SelectSeq([i \in 1..Len(items) |-> items[i].height], IsPositive)
             avgNum == IF Len(heights) > 0 THEN SumSeq(heights) ELSE FallbackHeight
             avgDen == IF Len(heights) > 0 THEN Len(heights) ELSE 1
         IN  IF avgNum >= MinTolerance * 10 * avgDen
             THEN [num |-> avgNum, den |-> 10 * avgDen]
             ELSE [num |-> MinTolerance, den |-> 1]

\* a negative tolerance taken by its magnitude
WithinTolerance_Magnitude(distance, tol) == distance * tol.den <= Abs(tol.num) * Unit

\* the boundary left out: distance < tolerance
WithinTolerance_Strict(distance, tol) == distance * tol.den < tol.num * Unit

\* distance <= tolerance, distance in 1/Unit pixel
WithinTolerance(distance, tol) == distance * tol.den <= tol.num * Unit

RECURSIVE AssignToRow_LastMember(_, _, _, _)
\* the fragment compared with the member a row took last
AssignToRow_LastMember(rows, k, item, tol) ==
    IF k > Len(rows) THEN Append(rows, <<item>>)
    ELSE IF WithinTolerance(Abs(item.y - rows[k][Len(rows[k])].y), tol)
         THEN [rows EXCEPT ![k] = Append(@, item)]
         ELSE AssignToRow_LastMember(rows, k + 1, item, tol)

RECURSIVE AssignToRow_Signed(_, _, _, _)
\* the distance taken as rowY - item.y, without Math.abs
AssignToRow_Signed(rows, k, item, tol) ==
    IF k > Len(rows) THEN Append(rows, <<item>>)
    ELSE IF WithinTolerance(rows[k][1].y - item.y, tol)
         THEN [rows EXCEPT ![k] = Append(@, item)]
         ELSE AssignToRow_Signed(rows, k + 1, item, tol)

RECURSIVE AssignToRow(_, _, _, _)
AssignToRow(rows, k, item, tol) ==
    IF k > Len(rows) THEN Append(rows, <<item>>)
    ELSE IF WithinTolerance(Abs(item.y - rows[k][1].y), tol)
         THEN [rows EXCEPT ![k] = Append(@, item)]
         ELSE AssignToRow(rows, k + 1, item, tol)

RECURSIVE ClusterRows_AlwaysOpensRow(_, _, _)
\* assignedToRow never set: a fragment put in a row opens a row as well
ClusterRows_AlwaysOpensRow(items, rows, tol) ==
    IF Len(items) = 0 THEN rows
    ELSE LET r == AssignToRow(rows, 1, Head(items), tol)
         IN  ClusterRows_AlwaysOpensRow(
                 Tail(items),
                 IF Len(r) = Len(rows) THEN Append(r, <<Head(items)>>) ELSE r,
                 tol)

RECURSIVE ClusterRows(_, _, _)
\* the loop over itemsWithCoords
ClusterRows(items, rows, tol) ==
    IF Len(items) = 0 THEN rows
    ELSE ClusterRows(Tail(items), AssignToRow(rows, 1, Head(items), tol), tol)

\* the rows left in the order the clustering filled them
GroupTextItemsByRows_RowsUnsorted(textItems, viewport, custom) ==
    LET itemsWithCoords ==
            SortBy([i \in 1..Len(textItems) |-> WithCoords(textItems[i], viewport)], "y")
    IN  ClusterRows(itemsWithCoords, <<>>, RowTolerance(itemsWithCoords, custom))

\* the fragments clustered in the order the page delivers them
GroupTextItemsByRows_InputOrder(textItems, viewport, custom) ==
    LET itemsWithCoords ==
            [i \in 1..Len(textItems) |-> WithCoords(textItems[i], viewport)]
        tolerance == RowTolerance(itemsWithCoords, custom)
        rows == ClusterRows(itemsWithCoords, <<>>, tolerance)
    IN  [k \in 1..Len(rows) |-> SortBy(rows[k], "x")]

GroupTextItemsByRows(textItems, viewport, custom) ==
    LET itemsWithCoords ==
            SortBy([i \in 1..Len(textItems) |-> WithCoords(textItems[i], viewport)], "y")
        tolerance == RowTolerance(itemsWithCoords, custom)
        rows == ClusterRows(itemsWithCoords, <<>>, tolerance)
    IN  [k \in 1..Len(rows) |-> SortBy(rows[k], "x")]

---------------------------------------------------------------------------
(* processRow *)

\* the box with its height added below the baseline instead of taken off above it
CalculateBoundingBox_Flipped(textItem, word, viewport) ==
    LET x == ConvertToViewportPoint(viewport, textItem.tx, textItem.ty)[1]
        y == ConvertToViewportPoint(viewport, textItem.ty, textItem.tx)[2]
        charWidth == (textItem.width * Unit) \div Len(textItem.str)
        wordX == x + IndexOf(textItem.str, word) * charWidth
    IN  <<wordX, y + textItem.height * Unit, wordX + Len(word) * charWidth, y>>

\* the width of a character taken from the length of the word
CalculateBoundingBox_WordCharWidth(textItem, word, viewport) ==
    LET x == ConvertToViewportPoint(viewport, textItem.tx, textItem.ty)[1]
        y == ConvertToViewportPoint(viewport, textItem.ty, textItem.tx)[2]
        charWidth == (textItem.width * Unit) \div Len(word)
        wordX == x + IndexOf(textItem.str, word) * charWidth
    IN  <<wordX, y - textItem.height * Unit, wordX + Len(word) * charWidth, y>>

CalculateBoundingBox(textItem, word, viewport) ==
    LET x == ConvertToViewportPoint(viewport, textItem.tx, textItem.ty)[1]
        y == ConvertToViewportPoint(viewport, textItem.ty, textItem.tx)[2]
        fullText == textItem.str
        wordIndex == IndexOf(fullText, word)
        charWidth == (textItem.width * Unit) \div Len(fullText)
        wordWidth == Len(word) * charWidth
        wordX == x + wordIndex * charWidth
    IN  <<wordX, y - textItem.height * Unit, wordX + wordWidth, y>>

\* the first pass over one text item: its tokens with their boxes
ItemWords(item, viewport) ==
    LET tokens == TokenizeText(item.str)
        kept == SelectSeq(tokens, LAMBDA w : Len(Trim(w)) > 0)
    IN  [i \in 1..Len(kept) |->
            [word |-> Trim(kept[i]),
             bbox |-> CalculateBoundingBox(item, kept[i], viewport)]]

RECURSIVE CollectRowWords(_, _)
CollectRowWords(row, viewport) ==
    IF Len(row) = 0 THEN <<>>
    ELSE ItemWords(Head(row), viewport) \o CollectRowWords(Tail(row), viewport)

\* tokenizeText(item.str) throws a TypeError when str is not a string
RowThrows(row) == \E i \in 1..Len(row) : row[i].str = Undefined

RECURSIVE EmitRowWords(_, _, _, _, _, _)
\* the second pass: rowWords.forEach((wordData, index) => ...)
EmitRowWords(ws, buf, rowWords, k, pageNo, rowIndex) ==
    IF k > Len(rowWords) THEN [words |-> ws, buf |-> buf]
    ELSE LET wordData == rowWords[k]
             pushed == Append(buf, wordData.word)
             wordObj == [word |-> wordData.word, page |-> pageNo, row |-> rowIndex,
                         index |-> k, bbox |-> wordData.bbox,
                         sentence |-> Join(pushed)]
         IN  EmitRowWords(Append(ws, wordObj),
                          IF IsSentenceEnd(wordData.word) THEN <<>> ELSE pushed,
                          rowWords, k + 1, pageNo, rowIndex)

\* every row starting from an empty sentence buffer
ProcessRow_FreshBuffer(ws, buf, row, pageNo, rowIndex, viewport) ==
    IF RowThrows(row)
    THEN [words |-> ws, buf |-> buf, threw |-> TRUE]
    ELSE LET r == EmitRowWords(ws, <<>>, CollectRowWords(row, viewport), 1,
                               pageNo, rowIndex)
         IN  [words |-> r.words, buf |-> r.buf, threw |-> FALSE]

RECURSIVE EmitPerItem(_, _, _, _, _, _)
EmitPerItem(ws, buf, row, pageNo, rowIndex, viewport) ==
    IF Len(row) = 0 THEN [words |-> ws, buf |-> buf]
    ELSE LET r == EmitRowWords(ws, buf, ItemWords(Head(row), viewport), 1,
                               pageNo, rowIndex)
         IN  EmitPerItem(r.words, r.buf, Tail(row), pageNo, rowIndex, viewport)

\* the words numbered inside each text item instead of over the whole row
ProcessRow_PerFragment(ws, buf, row, pageNo, rowIndex, viewport) ==
    IF RowThrows(row)
    THEN [words |-> ws, buf |-> buf, threw |-> TRUE]
    ELSE LET r == EmitPerItem(ws, buf, row, pageNo, rowIndex, viewport)
         IN  [words |-> r.words, buf |-> r.buf, threw |-> FALSE]

ProcessRow(ws, buf, row, pageNo, rowIndex, viewport) ==
    IF RowThrows(row)
    THEN [words |-> ws, buf |-> buf, threw |-> TRUE]
    ELSE LET r == EmitRowWords(ws, buf, CollectRowWords(row, viewport), 1,
                               pageNo, rowIndex)
         IN  [words |-> r.words, buf |-> r.buf, threw |-> FALSE]

---------------------------------------------------------------------------
(* processPage *)

RECURSIVE ProcessRows_BottomUp(_, _, _, _, _, _)
\* the rows taken from the last to the first, each keeping its number
ProcessRows_BottomUp(ws, buf, rows, k, pageNo, viewport) ==
    IF k > Len(rows) THEN [words |-> ws, buf |-> buf, threw |-> FALSE]
    ELSE LET n == Len(rows) + 1 - k
             r == ProcessRow(ws, buf, rows[n], pageNo, n, viewport)
         IN  IF r.threw THEN r
             ELSE ProcessRows_BottomUp(r.words, r.buf, rows, k + 1, pageNo, viewport)

RECURSIVE ProcessRows(_, _, _, _, _, _)
\* rows.forEach((row, rowIndex) => this.processRow(row, pageNum, rowIndex + 1, viewport))
ProcessRows(ws, buf, rows, k, pageNo, viewport) ==
    IF k > Len(rows) THEN [words |-> ws, buf |-> buf, threw |-> FALSE]
    ELSE LET r == ProcessRow(ws, buf, rows[k], pageNo, k, viewport)
         IN  IF r.threw THEN r
             ELSE ProcessRows(r.words, r.buf, rows, k + 1, pageNo, viewport)

\* the body of the try block: what it leaves behind, and whether it threw
ProcessPageTry(ws, buf, detected, page, pageNo, custom) ==
    IF page.fail # "none"
    THEN [words |-> ws, buf |-> buf, rows |-> detected, threw |-> TRUE]
    ELSE LET viewport == GetViewport(page)
             rows == GroupTextItemsByRows(page.items, viewport, custom)
             r == ProcessRows(ws, buf, rows, 1, pageNo, viewport)
         IN  [words |-> r.words, buf |-> r.buf, rows |-> rows, threw |-> r.threw]

\* the try block without its catch: the error reaches indexPDF
ProcessPage_NoCatch(ws, buf, detected, page, pageNo, custom) ==
    ProcessPageTry(ws, buf, detected, page, pageNo, custom)

\* try { ... } catch (error) { console.error(...) }: the error stops here
ProcessPage(ws, buf, detected, page, pageNo, custom) ==
    [ProcessPageTry(ws, buf, detected, page, pageNo, custom) EXCEPT !.threw = FALSE]

\* whether processing this page ends in the catch block
PageFails(page, custom) ==
    ProcessPageTry(<<>>, <<>>, <<>>, page, 1, custom).threw

---------------------------------------------------------------------------
(* indexPDF, one call at a time: a call starts when no other is under way *)

RECURSIVE IndexPages(_, _, _, _, _)
\* the page loop of indexPDF run to its end from the given words and buffer
IndexPages(ws, buf, document, p, custom) ==
    IF p > Len(document) THEN [words |-> ws, buf |-> buf]
    ELSE LET r == ProcessPage(ws, buf, <<>>, document[p], p, custom)
         IN  IndexPages(r.words, r.buf, document, p + 1, custom)

WordTexts(ws) == [i \in 1..Len(ws) |-> ws[i].word]

Idle == pc \in {"idle", "done", "rejected"}

\* PDFViewer.indexPDF or reindexWithNewTolerance up to the first await of
\* PDFIndexer.indexPDF; without a document the handler shows an error and ends
StartRun(custom) ==
    /\ Idle
    /\ pdfLoaded
    /\ nRuns < MaxRuns
    /\ customTolerance' = custom
    /\ words' = <<>>
    /\ pageNum' = 1
    /\ pc' = "pages"
    /\ nRuns' = nRuns + 1
    /\ UNCHANGED <<doc, sentenceBuffer, lastDetectedRows, db, returned, emitted,
                   shown, storeError, dbBefore, pdfLoaded, abandoned>>
    /\ UNCHANGED overlapVars

\* PDFViewer.indexPDF: the Index PDF button
IndexPDF ==
    /\ StartRun(customTolerance)
    /\ UNCHANGED searchVars
    /\ UNCHANGED navVars
    /\ UNCHANGED editorVars

\* PDFViewer.reindexWithNewTolerance: setCustomTolerance, then indexPDF
ReindexWithNewTolerance ==
    /\ \E t \in ToleranceChoices : StartRun(<<t>>)
    /\ UNCHANGED searchVars
    /\ UNCHANGED navVars
    /\ UNCHANGED editorVars

\* one turn of the page loop: await this.processPage(pdfDoc, pageNum, scale)
ProcessPageStep ==
    /\ pc = "pages"
    /\ pageNum <= Len(doc)
    /\ LET r == ProcessPage(words, sentenceBuffer, lastDetectedRows, doc[pageNum],
                            pageNum, customTolerance)
       IN  /\ words' = r.words
           /\ sentenceBuffer' = r.buf
           /\ lastDetectedRows' = r.rows
           /\ emitted' = emitted \o SubSeq(WordTexts(r.words), Len(words) + 1, Len(r.words))
           /\ IF r.threw
              THEN pc' = "rejected" /\ pageNum' = pageNum /\ shown' = "error"
              ELSE /\ pageNum' = pageNum + 1
                   /\ pc' = IF pageNum + 1 > Len(doc) THEN "clear" ELSE "pages"
                   /\ shown' = shown
    /\ UNCHANGED <<doc, customTolerance, db, returned, nRuns, storeError, dbBefore,
                   pdfLoaded, abandoned>>
    /\ UNCHANGED overlapVars
    /\ UNCHANGED searchVars
    /\ UNCHANGED navVars
    /\ UNCHANGED editorVars

\* what a bulkAdd that failed may have left in the cleared table: bulkAdd runs
\* in a transaction of its own, and the adds that went through before the error
\* stay.  Two outcomes are kept: nothing added, and the first record only.
PartlyAdded(ws) == {<<>>} \cup (IF Len(ws) > 1 THEN {SubSeq(ws, 1, 1)} ELSE {})

\* storeWords: await db.words.clear(); an error goes to the catch block, after
\* which indexPDF returns this.words and the viewer shows its success message
StoreClear ==
    /\ pc = "clear"
    /\ dbBefore' = db
    /\ \/ /\ db' = <<>>
          /\ pc' = "bulkAdd"
          /\ UNCHANGED <<returned, storeError, shown>>
       \/ /\ db' = db
          /\ pc' = "done"
          /\ returned' = words
          /\ storeError' = TRUE
          /\ shown' = "success"
    /\ UNCHANGED <<doc, words, sentenceBuffer, customTolerance, lastDetectedRows,
                   pageNum, nRuns, emitted, pdfLoaded, abandoned>>
    /\ UNCHANGED overlapVars
    /\ UNCHANGED searchVars
    /\ UNCHANGED navVars
    /\ UNCHANGED editorVars

\* storeWords: await db.words.bulkAdd(this.words), an error going to the catch
\* block; then indexPDF returns this.words and the viewer shows its success
\* message
StoreBulkAdd ==
    /\ pc = "bulkAdd"
    /\ \/ db' = words /\ storeError' = FALSE
       \/ db' \in PartlyAdded(words) /\ storeError' = TRUE
    /\ pc' = "done"
    /\ returned' = words
    /\ shown' = "success"
    /\ UNCHANGED <<doc, words, sentenceBuffer, customTolerance, lastDetectedRows,
                   pageNum, nRuns, emitted, dbBefore, pdfLoaded, abandoned>>
    /\ UNCHANGED overlapVars
    /\ UNCHANGED searchVars
    /\ UNCHANGED navVars
    /\ UNCHANGED editorVars

\* PDFViewer.resetViewer: the viewer lets go of its document, its indexer and
\* its search results and hides the viewer section with what is drawn in it;
\* an indexPDF call under way keeps its own references to document and indexer
ResetViewer ==
    /\ pdfLoaded
    /\ pdfLoaded' = FALSE
    /\ abandoned' = (pc = "pages")
    /\ currentPage' = 1
    /\ totalPages' = 0
    /\ viewerActive' = FALSE
    /\ UNCHANGED <<doc, words, sentenceBuffer, customTolerance, lastDetectedRows,
                   db, pc, pageNum, returned, nRuns, emitted, shown, storeError,
                   dbBefore, keydownListeners>>
    /\ currentSearchResults' = <<>>
    /\ UNCHANGED highlightDots
    /\ UNCHANGED overlapVars
    /\ UNCHANGED engineVars
    /\ UNCHANGED editorVars

\* a document loaded, nothing indexed yet
ViewerIdle ==
    /\ shown = "none"
    /\ storeError = FALSE
    /\ dbBefore = <<>>
    /\ pdfLoaded = TRUE
    /\ abandoned = FALSE
    /\ pc2 = "idle"
    /\ pageNum2 = 0
    /\ returned2 = <<>>
    /\ custom2 = Null
    /\ manualRowBoundaries = <<>>
    /\ manualRowMode = FALSE
    /\ editorOpen = FALSE
    /\ clickListeners = 0
    /\ currentPage = 1
    /\ totalPages = Len(doc)
    /\ viewerActive = TRUE
    /\ keydownListeners = 2

SearchIdle ==
    /\ sWords = <<>>
    /\ isIndexBuilt = FALSE
    /\ sIndex = Null
    /\ spc = "idle"
    /\ everBuilt = FALSE
    /\ initialized = "none"
    /\ lastCall = "none"
    /\ searchStatus = "none"
    /\ searchTerm = <<>>
    /\ lunrHits = <<>>
    /\ results = <<>>
    /\ currentSearchResults = <<>>
    /\ highlightDots = <<>>

Init ==
    /\ doc \in Documents
    /\ words = <<>>
    /\ sentenceBuffer = <<>>
    /\ customTolerance = Null
    /\ lastDetectedRows = <<>>
    /\ db = <<>>
    /\ pc = "idle"
    /\ pageNum = 0
    /\ returned = <<>>
    /\ nRuns = 0
    /\ emitted = <<>>
    /\ ViewerIdle
    /\ SearchIdle

Next ==
    \/ IndexPDF
    \/ ReindexWithNewTolerance
    \/ ProcessPageStep
    \/ StoreClear
    \/ StoreBulkAdd

Spec == Init /\ [][Next]_vars

---------------------------------------------------------------------------
(* Two indexPDF calls on one PDFIndexer.  Each of the two buttons is disabled
   only while its own handler runs, so the Re-index handler (pc, pageNum,
   returned) and the Index PDF handler (pc2, pageNum2, returned2) can each have
   a call under way; the two calls share this.words, this.sentenceBuffer,
   this.customTolerance and the table, and take turns at their awaits. *)

\* PDFViewer.indexPDF, clicked whether or not a Re-index is under way
IndexPDFDuring ==
    /\ pc2 \in {"idle", "done", "rejected"}
    /\ pdfLoaded
    /\ nRuns < MaxRuns
    /\ words' = <<>>
    /\ pageNum2' = 1
    /\ pc2' = "pages"
    /\ custom2' = customTolerance
    /\ nRuns' = nRuns + 1
    /\ UNCHANGED <<doc, sentenceBuffer, customTolerance, lastDetectedRows, db, pc,
                   pageNum, returned, emitted, shown, storeError, dbBefore,
                   pdfLoaded, abandoned, returned2>>
    /\ UNCHANGED searchVars
    /\ UNCHANGED navVars
    /\ UNCHANGED editorVars

\* one turn of the page loop of the second call
ProcessPageStep2 ==
    /\ pc2 = "pages"
    /\ pageNum2 <= Len(doc)
    /\ LET r == ProcessPage(words, sentenceBuffer, lastDetectedRows, doc[pageNum2],
                            pageNum2, customTolerance)
       IN  /\ words' = r.words
           /\ sentenceBuffer' = r.buf
           /\ lastDetectedRows' = r.rows
           /\ emitted' = emitted \o SubSeq(WordTexts(r.words), Len(words) + 1, Len(r.words))
           /\ IF r.threw
              THEN pc2' = "rejected" /\ pageNum2' = pageNum2 /\ shown' = "error"
              ELSE /\ pageNum2' = pageNum2 + 1
                   /\ pc2' = IF pageNum2 + 1 > Len(doc) THEN "clear" ELSE "pages"
                   /\ shown' = shown
    /\ UNCHANGED <<doc, customTolerance, db, pc, pageNum, returned, nRuns,
                   storeError, dbBefore, pdfLoaded, abandoned, returned2, custom2>>
    /\ UNCHANGED searchVars
    /\ UNCHANGED navVars
    /\ UNCHANGED editorVars

\* storeWords of the second call: await db.words.clear()
StoreClear2 ==
    /\ pc2 = "clear"
    /\ dbBefore' = db
    /\ \/ /\ db' = <<>>
          /\ pc2' = "bulkAdd"
          /\ UNCHANGED <<returned2, storeError, shown>>
       \/ /\ db' = db
          /\ pc2' = "done"
          /\ returned2' = words
          /\ storeError' = TRUE
          /\ shown' = "success"
    /\ UNCHANGED <<doc, words, sentenceBuffer, customTolerance, lastDetectedRows,
                   pc, pageNum, returned, nRuns, emitted, pdfLoaded, abandoned,
                   pageNum2, custom2>>
    /\ UNCHANGED searchVars
    /\ UNCHANGED navVars
    /\ UNCHANGED editorVars

\* storeWords of the second call: await db.words.bulkAdd(this.words).  The
\* records of this.words an earlier bulkAdd has put in the table since the last
\* clear carry their key and are not added twice, so the table ends up with
\* the records of this.words here too.
StoreBulkAdd2 ==
    /\ pc2 = "bulkAdd"
    /\ \/ db' = words /\ storeError' = FALSE
       \/ db' \in PartlyAdded(words) /\ storeError' = TRUE
    /\ pc2' = "done"
    /\ returned2' = words
    /\ shown' = "success"
    /\ UNCHANGED <<doc, words, sentenceBuffer, customTolerance, lastDetectedRows,
                   pc, pageNum, returned, nRuns, emitted, dbBefore, pdfLoaded,
                   abandoned, pageNum2, custom2>>
    /\ UNCHANGED searchVars
    /\ UNCHANGED navVars
    /\ UNCHANGED editorVars

NextOverlap ==
    \/ ReindexWithNewTolerance
    \/ ProcessPageStep
    \/ StoreClear
    \/ StoreBulkAdd
    \/ IndexPDFDuring
    \/ ProcessPageStep2
    \/ StoreClear2
    \/ StoreBulkAdd2

SpecOverlap == Init /\ [][NextOverlap]_vars

---------------------------------------------------------------------------
\* the same, with the New File button
NextReset ==
    \/ Next
    \/ ResetViewer

SpecReset == Init /\ [][NextReset]_vars

---------------------------------------------------------------------------
(* PDFSearch.search on a built index *)

\* the comparator stopping at the page
CompareResults_PageOnly(a, b) == a.page - b.page

\* (a, b) => page, then row, then index: negative, zero or positive
CompareResults(a, b) ==
    IF a.page # b.page THEN a.page - b.page
    ELSE IF a.row # b.row THEN a.row - b.row
    ELSE a.index - b.index

RECURSIVE InsertResult(_, _)
InsertResult(sorted, it) ==
    IF Len(sorted) = 0 THEN <<it>>
    ELSE IF CompareResults(sorted[Len(sorted)], it) <= 0 THEN Append(sorted, it)
    ELSE Append(InsertResult(SubSeq(sorted, 1, Len(sorted) - 1), it),
                sorted[Len(sorted)])

RECURSIVE SortResults(_)
\* searchResults.sort(...), stable
SortResults(s) ==
    IF Len(s) = 0 THEN <<>>
    ELSE InsertResult(SortResults(SubSeq(s, 1, Len(s) - 1)), s[Len(s)])

\* results.map(result => ({ ...this.words[result.ref], score: result.score }))
MapHits(wordList, hits) ==
    [i \in 1..Len(hits) |->
        LET w == wordList[hits[i].ref + 1]
        IN  [word |-> w.word, page |-> w.page, row |-> w.row, index |-> w.index,
             bbox |-> w.bbox, sentence |-> w.sentence, score |-> hits[i].score]]

\* the sort left out: the hits stay in the order lunr gave them
SearchResults_Unsorted(wordList, hits) == MapHits(wordList, hits)

\* lines 127 to 146 of search: map the hits to word records, sort, return
SearchResults(wordList, hits) == SortResults(MapHits(wordList, hits))

\* what lunr's index.search may return over n documents: each document at most
\* once, with a score, best score first
LunrResults(n) ==
    LET Hit == [ref : 0..(n - 1), score : 1..MaxScore]
        lists == UNION { [1..k -> Hit] : k \in 0..MaxHits }
    IN  { h \in lists :
            /\ \A i, j \in 1..Len(h) : i # j => h[i].ref # h[j].ref
            /\ \A i \in 1..(Len(h) - 1) : h[i].score >= h[i + 1].score }

\* null and the empty string are both <<>>
QueryTerms == { <<>>, <<" ">>, <<"a">> }

\* the term tested for emptiness without trimming it
IsEmptyTerm_NoTrim(term) == term = Null \/ Len(term) = 0

\* !searchTerm || searchTerm.trim().length === 0
IsEmptyTerm(term) == term = Null \/ Len(Trim(term)) = 0

\* the ways one search call can go, given the state of the engine: what it
\* returns, what index.search gave it, and the branch taken.  index.search
\* can throw (a query lunr cannot parse), which the catch block turns into [].
SearchOutcomes(built, index, wordList, term) ==
    IF ~built \/ index = Null
    THEN { [results |-> <<>>, hits |-> <<>>, call |-> "notBuilt"] }
    ELSE IF IsEmptyTerm(term)
    THEN { [results |-> <<>>, hits |-> <<>>, call |-> "emptyTerm"] }
    ELSE { [results |-> SearchResults(wordList, h), hits |-> h, call |-> "queried"] :
              h \in LunrResults(index[1]) }
         \cup { [results |-> <<>>, hits |-> <<>>, call |-> "threw"] }

\* PDFSearch.search(searchTerm), called on the engine directly
Search ==
    /\ \E term \in QueryTerms :
         \E o \in SearchOutcomes(isIndexBuilt, sIndex, sWords, term) :
            /\ searchTerm' = term
            /\ lunrHits' = o.hits
            /\ results' = o.results
            /\ lastCall' = o.call
    /\ searchStatus' = "none"
    /\ UNCHANGED <<sWords, isIndexBuilt, sIndex, spc, everBuilt, initialized>>
    /\ UNCHANGED highlightVars
    /\ UNCHANGED indexerVars

\* the documents whose word records the ranking is tried on
RankDocuments ==
    { <<Page("none", <<TextItem(TextBDot, 1, 3, 0, 10), TextItem(TextAB, 1, 5, 12, 30)>>)>>,
      <<Page("none", <<TextItem(TextA, 0, 5, 6, 10), TextItem(TextBDot, 1, 5, 6, 0)>>),
        Page("none", <<TextItem(TextAB, 0, 5, 12, 10)>>)>> }

\* a search engine holding the records of an indexed document, its index built
InitRank ==
    /\ doc \in RankDocuments
    /\ words = <<>>
    /\ sentenceBuffer = <<>>
    /\ customTolerance \in {Null, <<WideTolerance>>}
    /\ lastDetectedRows = <<>>
    /\ db = IndexPages(<<>>, <<>>, doc, 1, customTolerance).words
    /\ pc = "idle"
    /\ pageNum = 0
    /\ returned = <<>>
    /\ nRuns = 0
    /\ emitted = <<>>
    /\ ViewerIdle
    /\ sWords = db
    /\ isIndexBuilt = TRUE
    /\ sIndex = <<Len(db)>>
    /\ spc = "idle"
    /\ everBuilt = TRUE
    /\ initialized = "true"
    /\ lastCall = "none"
    /\ searchStatus = "none"
    /\ searchTerm = <<>>
    /\ lunrHits = <<>>
    /\ results = <<>>
    /\ currentSearchResults = <<>>
    /\ highlightDots = <<>>

NextRank == Search

SpecRank == InitRank /\ [][NextRank]_vars

---------------------------------------------------------------------------
(* PDFSearch.initialize and refresh, PDFViewer.performSearch *)

\* buildSearchIndex.  lunr calls the function it is given with its builder as
\* this (the this.field calls rely on it), so this.words.forEach reads words
\* off the builder, which has none: a TypeError, thrown before this.index is
\* assigned and caught at line 98.  Without window.lunr the Error of line 70
\* goes the same way.
BuildSearchIndex(index) == [index |-> index, built |-> FALSE]

\* initialize keeping the words the engine holds and building over them
Initialize_KeepsSnapshot(index, built, store, loadOk) ==
    [words |-> sWords, index |-> <<Len(sWords)>>, built |-> TRUE,
     ret |-> Len(sWords) > 0]

\* initialize on an engine with this index and flag, the table holding store:
\* the state it leaves and the value it returns
Initialize(index, built, store, loadOk) ==
    LET loaded == IF loadOk THEN store ELSE <<>>
    IN  IF Len(loaded) = 0
        THEN [words |-> loaded, index |-> index, built |-> built, ret |-> FALSE]
        ELSE LET b == BuildSearchIndex(index)
             IN  [words |-> loaded, index |-> b.index, built |-> b.built,
                  ret |-> TRUE]

\* refresh up to the first await of loadWordsFromDB
RefreshStart ==
    /\ spc = "idle"
    /\ isIndexBuilt' = FALSE
    /\ sIndex' = Null
    /\ spc' = "loading"
    /\ initialized' = "none"
    /\ UNCHANGED <<sWords, everBuilt, lastCall, searchStatus, searchTerm, lunrHits,
                   results>>
    /\ UNCHANGED highlightVars
    /\ UNCHANGED indexerVars

\* the rest of refresh: the words loaded, or none on an error, then the build
RefreshFinish ==
    /\ spc = "loading"
    /\ \E loadOk \in BOOLEAN :
          LET r == Initialize(sIndex, isIndexBuilt, db, loadOk)
          IN  /\ sWords' = r.words
              /\ sIndex' = r.index
              /\ isIndexBuilt' = r.built
              /\ everBuilt' = (everBuilt \/ r.built)
              /\ initialized' = IF r.ret THEN "true" ELSE "false"
    /\ spc' = "idle"
    /\ UNCHANGED <<lastCall, searchStatus, searchTerm, lunrHits, results>>
    /\ UNCHANGED highlightVars
    /\ UNCHANGED indexerVars

\* PDFHighlighter.renderHighlights: the overlay emptied, then one dot for every
\* result of the highlighter's page
RenderHighlights(searchResults, page) ==
    SelectSeq(searchResults, LAMBDA r : r.page = page)

\* PDFViewer.performSearch with a searcher: the input trimmed, initialize if
\* the index is not built, search, the status shown, and the highlights
\* cleared or drawn for the page on display (the highlighter is there while a
\* document is)
PerformSearch ==
    /\ spc = "idle"
    /\ \E input \in QueryTerms, loadOk \in BOOLEAN :
          LET term == Trim(input)
              r == IF isIndexBuilt
                   THEN [words |-> sWords, index |-> sIndex, built |-> TRUE,
                         ret |-> TRUE]
                   ELSE Initialize(sIndex, isIndexBuilt, db, loadOk)
          IN  IF Len(term) = 0
              THEN /\ searchStatus' = "enterTerm"
                   /\ UNCHANGED <<sWords, sIndex, isIndexBuilt, everBuilt,
                                  initialized, lastCall, searchTerm, lunrHits,
                                  results>>
                   /\ UNCHANGED highlightVars
              ELSE /\ sWords' = r.words
                   /\ sIndex' = r.index
                   /\ isIndexBuilt' = r.built
                   /\ everBuilt' = (everBuilt \/ r.built)
                   /\ initialized' = IF isIndexBuilt THEN initialized
                                     ELSE IF r.ret THEN "true" ELSE "false"
                   /\ IF ~r.ret
                      THEN /\ searchStatus' = "noIndexedWords"
                           /\ UNCHANGED <<lastCall, searchTerm, lunrHits, results>>
                           /\ UNCHANGED highlightVars
                      ELSE \E o \in SearchOutcomes(r.built, r.index, r.words, term) :
                              /\ searchTerm' = term
                              /\ lunrHits' = o.hits
                              /\ results' = o.results
                              /\ lastCall' = o.call
                              /\ searchStatus' = IF Len(o.results) = 0
                                                 THEN "noMatches" ELSE "found"
                              /\ currentSearchResults' = o.results
                              /\ highlightDots' =
                                    IF ~pdfLoaded THEN highlightDots
                                    ELSE IF Len(o.results) = 0 THEN <<>>
                                    ELSE RenderHighlights(o.results, currentPage)
    /\ spc' = spc
    /\ UNCHANGED indexerVars

\* a document indexed or not, and a search engine either new or holding the
\* table's records with its index built.  (The built state is the one the
\* claims about queries speak of; BuildSearchIndex as written does not lead
\* to it.)
InitSearch ==
    /\ doc \in RankDocuments
    /\ words = <<>>
    /\ sentenceBuffer = <<>>
    /\ customTolerance \in {Null, <<WideTolerance>>}
    /\ lastDetectedRows = <<>>
    /\ db \in {<<>>, IndexPages(<<>>, <<>>, doc, 1, customTolerance).words}
    /\ pc = "idle"
    /\ pageNum = 0
    /\ returned = <<>>
    /\ nRuns = 0
    /\ emitted = <<>>
    /\ ViewerIdle
    /\ \/ SearchIdle
       \/ /\ Len(db) > 0
          /\ sWords = db
          /\ isIndexBuilt = TRUE
          /\ sIndex = <<Len(db)>>
          /\ spc = "idle"
          /\ everBuilt = TRUE
          /\ initialized = "true"
          /\ lastCall = "none"
          /\ searchStatus = "none"
          /\ searchTerm = <<>>
          /\ lunrHits = <<>>
          /\ results = <<>>
          /\ currentSearchResults = <<>>
          /\ highlightDots = <<>>

NextSearch ==
    \/ Search
    \/ PerformSearch
    \/ RefreshStart
    \/ RefreshFinish

SpecSearch == InitSearch /\ [][NextSearch]_vars

---------------------------------------------------------------------------
(* Claims about PDFSearch.search, under SpecRank *)

Position(r) == <<r.page, r.row, r.index>>

\* lexicographic order on (page, row, index)
PositionLess(a, b) ==
    \/ a.page < b.page
    \/ a.page = b.page /\ a.row < b.row
    \/ a.page = b.page /\ a.row = b.row /\ a.index < b.index

NonEmptyQuery == isIndexBuilt /\ Len(Trim(searchTerm)) > 0

C2_EqualScoreOrder ==
    \A i, j \in 1..Len(results) :
        (/\ results[i].score = results[j].score
         /\ PositionLess(results[i], results[j])) => i < j

\* two results of equal score on one page, which lunr gave in the other order
C2_Witness ==
    /\ NonEmptyQuery
    /\ \E i, j \in 1..Len(results) :
          /\ i < j
          /\ results[i].score = results[j].score
          /\ results[i].page = results[j].page
          /\ \E k, l \in 1..Len(lunrHits) :
                /\ k < l
                /\ Position(sWords[lunrHits[k].ref + 1]) = Position(results[j])
                /\ Position(sWords[lunrHits[l].ref + 1]) = Position(results[i])

---------------------------------------------------------------------------
(* Claims about indexing, under Spec *)

EndsSentence(w) == Len(w) > 0 /\ w[Len(w)] \in {".", "!", "?"}

RECURSIVE SentenceStart(_, _)
\* the place in log of the first word after the last terminator before place k
SentenceStart(log, k) ==
    IF k <= 1 THEN 1
    ELSE IF EndsSentence(log[k - 1]) THEN k
    ELSE SentenceStart(log, k - 1)

IsSuffix(t, s) == Len(t) <= Len(s) /\ SubSeq(s, Len(s) - Len(t) + 1, Len(s)) = t

WordsOfPage(ws, p) == SelectSeq(ws, LAMBDA w : w.page = p)

WordsOfRow(ws, p, r) == SelectSeq(ws, LAMBDA w : w.page = p /\ w.row = r)

\* the number of maximal runs of non-whitespace characters in text
NumTokens(text) ==
    Cardinality({ i \in 1..Len(text) :
                    text[i] # " " /\ (i = 1 \/ text[i - 1] = " ") })

RowTokenCount(row) == SumSeq([i \in 1..Len(row) |-> NumTokens(row[i].str)])

RECURSIVE RowTokens(_)
RowTokens(row) ==
    IF Len(row) = 0 THEN <<>>
    ELSE TokenizeText(Head(row).str) \o RowTokens(Tail(row))

RECURSIVE RowsTokens(_)
RowsTokens(rows) ==
    IF Len(rows) = 0 THEN <<>>
    ELSE RowTokens(Head(rows)) \o RowsTokens(Tail(rows))

RowsOfPage(p) ==
    GroupTextItemsByRows(doc[p].items, GetViewport(doc[p]), customTolerance)

\* the pages the current run has been through
PagesDone == 1..(pageNum - 1)

C4_TerminatorResets ==
    \A i \in 1..Len(words) :
        EndsSentence(words[i].word) =>
            /\ LET texts == WordTexts(words)
               IN  IsSuffix(Join(SubSeq(texts, SentenceStart(texts, i), i)),
                            words[i].sentence)
            /\ i < Len(words) => words[i + 1].sentence = words[i + 1].word

\* a terminator closing a sentence of several words, followed on the next page
C4_Witness ==
    \E i \in 1..(Len(words) - 1) :
        /\ EndsSentence(words[i].word)
        /\ Len(words[i].sentence) > Len(words[i].word)
        /\ words[i + 1].page > words[i].page

\* C5 as stated: every indexPDF call starts from an empty sentence buffer, so
\* the list a call returns is the list a fresh indexer returns for the same
\* document and tolerance.
C5_RunStartsFresh ==
    pc = "done" => returned = IndexPages(<<>>, <<>>, doc, 1, customTolerance).words

\* C6: the words of every processed row carry the indices 1..N in the order of
\* the row's fragments and of the tokens inside each fragment, N being the
\* number of whitespace-separated tokens of the whole row; a row whose
\* processing, or that of a row before it, threw has no words.
C6_RowIndicesContiguous ==
    \A p \in PagesDone :
        doc[p].fail = "none" =>
            LET rows == RowsOfPage(p)
            IN  \A k \in 1..Len(rows) :
                    LET rw == WordsOfRow(words, p, k)
                    IN  IF \E j \in 1..k : RowThrows(rows[j])
                        THEN rw = <<>>
                        ELSE /\ [i \in 1..Len(rw) |-> rw[i].index]
                                  = [i \in 1..RowTokenCount(rows[k]) |-> i]
                             /\ WordTexts(rw) = RowTokens(rows[k])

\* a row of two fragments whose third word comes from the second fragment
C6_Witness ==
    \E p \in PagesDone :
        /\ doc[p].fail = "none"
        /\ \E k \in 1..Len(RowsOfPage(p)) :
              /\ Len(RowsOfPage(p)[k]) >= 2
              /\ NumTokens(RowsOfPage(p)[k][1].str) < 3
              /\ \E w \in 1..Len(words) :
                    words[w].page = p /\ words[w].row = k /\ words[w].index = 3

InDocumentOrder(ws) ==
    /\ \A i \in 1..(Len(ws) - 1) : PositionLess(ws[i], ws[i + 1])
    /\ \A i, j \in 1..Len(ws) :
          (ws[i].page = ws[j].page /\ ws[i].row < ws[j].row)
              => ws[i].bbox[4] <= ws[j].bbox[4]

\* C8: the word list, and the list indexPDF returns, is in document order:
\* the (page, row, index) of consecutive records strictly increase, and on a
\* page a row with a smaller number does not lie below one with a larger.
C8_DocumentOrder ==
    /\ InDocumentOrder(words)
    /\ pc = "done" => InDocumentOrder(returned)

\* a returned list with a page break, a row break and a row of several words
C8_Witness ==
    /\ pc = "done"
    /\ \E i \in 1..(Len(returned) - 1) : returned[i].page < returned[i + 1].page
    /\ \E i \in 1..(Len(returned) - 1) :
          returned[i].page = returned[i + 1].page /\ returned[i].row < returned[i + 1].row
    /\ \E i \in 1..Len(returned) : returned[i].index > 1

\* C9: a page whose processing throws does not end the run: indexPDF never
\* rejects, the loop goes through every page, every page that did not fail has
\* all its words in the list in order, and the call returns that list.
C9_FailedPageDoesNotAbort ==
    /\ pc # "rejected"
    /\ pc \in {"clear", "bulkAdd", "done"} => pageNum = Len(doc) + 1
    /\ \A p \in PagesDone :
          ~PageFails(doc[p], customTolerance) =>
              WordTexts(WordsOfPage(words, p)) = RowsTokens(RowsOfPage(p))
    /\ pc = "done" => returned = words

\* a completed run whose first page failed and whose later page has its words
C9_Witness ==
    /\ pc = "done"
    /\ \E p, q \in 1..Len(doc) :
          /\ p < q
          /\ PageFails(doc[p], customTolerance)
          /\ ~PageFails(doc[q], customTolerance)
          /\ Len(WordsOfPage(returned, q)) > 0

\* C10 as stated: processing a page that fails leaves the word list and the
\* sentence buffer as they were before the page.
C10_FailedPageLeavesNoTrace ==
    [][(/\ pc = "pages"
        /\ pageNum <= Len(doc)
        /\ PageFails(doc[pageNum], customTolerance))
           => (words' = words /\ sentenceBuffer' = sentenceBuffer)]_vars

---------------------------------------------------------------------------
(* Claims about the outcome of a run and the word store, under Spec *)

\* the call has ended: resolved ("done") or rejected
RunEnded == pc \in {"done", "rejected"}

EveryPageFails == \A p \in 1..Len(doc) : PageFails(doc[p], customTolerance)

\* C11 as stated: a run in which the processing of every page failed is
\* reported as a failure: indexPDF does not resolve normally and the viewer
\* does not show its success message.
C11_AllPagesFailedIsFailure ==
    (RunEnded /\ EveryPageFails) => (pc = "rejected" /\ shown # "success")

\* C12 as stated: once a run has completed, the store holds exactly the word
\* records of that run, in order.
C12_StoreIsLastRun ==
    pc = "done" => db = returned

\* C13 as stated: a run whose store write threw (clear or bulkAdd) reports
\* failure: indexPDF does not resolve normally with the word list and the
\* viewer does not show its success message.
C13_StoreFailureReported ==
    (RunEnded /\ storeError) => (pc = "rejected" /\ shown # "success")

\* C14 as stated: after storeWords has returned, the store holds either the
\* whole word set it held before the call or the whole new one.
C14_AtomicReplace ==
    pc = "done" => (db = dbBefore \/ db = returned)

\* C16 as stated: once resetViewer has abandoned a run between pages, no word
\* record is written to the store any more.
C16_AbandonedRunNotCommitted ==
    [][abandoned => (db' = db \/ db' = <<>>)]_vars

---------------------------------------------------------------------------
(* Claims about overlapping runs, under SpecOverlap *)

\* a word list without its sentence fields
Bare(ws) ==
    [i \in 1..Len(ws) |->
        [word |-> ws[i].word, page |-> ws[i].page, row |-> ws[i].row,
         index |-> ws[i].index, bbox |-> ws[i].bbox]]

\* the records a call with this tolerance produces with the indexer to itself
Alone(custom) == Bare(IndexPages(<<>>, <<>>, doc, 1, custom).words)

\* C15 as stated: each of two calls on one PDFIndexer returns the word records
\* it would produce alone, and once both have ended with the store written
\* the store holds the records of one of them; sentence fields are left out
\* of the comparison.
C15_RunsIsolated ==
    /\ pc = "done" => Bare(returned) = Alone(customTolerance)
    /\ pc2 = "done" => Bare(returned2) = Alone(custom2)
    /\ (pc = "done" /\ pc2 = "done" /\ ~storeError)
          => Bare(db) \in {Alone(customTolerance), Alone(custom2)}

---------------------------------------------------------------------------
(* Claims about the search engine's states, under SpecSearch *)

C18_EmptyTermNoQuery ==
    (lastCall # "none" /\ Len(Trim(searchTerm)) = 0) =>
        /\ results = <<>>
        /\ lunrHits = <<>>
        /\ lastCall \in {"notBuilt", "emptyTerm"}

\* a whitespace-only term answered by an engine whose index is built
C18_Witness ==
    /\ lastCall = "emptyTerm"
    /\ searchTerm = <<" ">>
    /\ isIndexBuilt
    /\ sIndex # Null

\* C19 as stated: a search on an index that is not built returns the empty
\* list together with a status, and not the status of a search without
\* matches.
C19_NotBuiltDistinguished ==
    lastCall = "notBuilt" =>
        /\ results = <<>>
        /\ searchStatus \notin {"none", "noMatches", "found"}

---------------------------------------------------------------------------
(* Claims about groupTextItemsByRows, under Spec *)

\* C20: in every row groupTextItemsByRows returns, the fragments are in
\* non-decreasing order of projected X.
C20_RowsLeftToRight ==
    \A k \in 1..Len(lastDetectedRows) :
        \A i \in 1..(Len(lastDetectedRows[k]) - 1) :
            lastDetectedRows[k][i].x <= lastDetectedRows[k][i + 1].x

\* a row whose two fragments the clustering had taken in the other order
C20_Witness ==
    \E k \in 1..Len(lastDetectedRows) :
        /\ Len(lastDetectedRows[k]) = 2
        /\ lastDetectedRows[k][1].x < lastDetectedRows[k][2].x
        /\ lastDetectedRows[k][1].y > lastDetectedRows[k][2].y

---------------------------------------------------------------------------
(* Row clustering on chosen pages.  With the scale 1.5 a step of 1/NativeDen
   in transform[4] moves the projected Y by a tenth of a pixel; the pages
   below are 80 units high and carry fragments whose projected Y is 100.0,
   100.4, 101.0, 101.2 and 103.0 pixels. *)

FragmentA == TextItemAt(TextA, 200, 75, 6, 0)
FragmentB == TextItemAt(TextBDot, 196, 75, 6, 5)
FragmentC == TextItemAt(TextAB, 190, 45, 12, 5)
FragmentD == TextItemAt(TextAA, 200, 45, 12, 0)
FragmentE == TextItemAt(TextA, 188, 75, 6, 0)
FragmentF == TextItemAt(TextAB, 170, 45, 12, 30)

ClusterFragments ==
    {FragmentA, FragmentB, FragmentC, FragmentD, FragmentE, FragmentF}

ClusterPage(its) == [fail |-> "none", items |-> its, viewHeight |-> 80 * NativeDen]

\* the fragments of a set in every order
Orderings(S) ==
    { its \in [1..Cardinality(S) -> S] :
        \A i, j \in 1..Cardinality(S) : i # j => its[i] # its[j] }

ClusterDocuments ==
    { <<ClusterPage(its)>> :
        its \in UNION { Orderings({f, g}) : f, g \in ClusterFragments }
                \cup Orderings({FragmentA, FragmentC, FragmentE})
                \cup Orderings({FragmentA, FragmentB, FragmentD})
                \cup Orderings({}) }

\* what setCustomTolerance may be handed, in tenths of a pixel
ClusterTolerances == {-10, 0, 2, 4, 10}

\* PDFIndexer.setCustomTolerance(tolerance), between two runs
SetCustomTolerance ==
    /\ Idle
    /\ nRuns < MaxRuns
    /\ \E t \in ClusterTolerances :
          /\ customTolerance # <<t>>
          /\ customTolerance' = <<t>>
    /\ UNCHANGED <<doc, words, sentenceBuffer, lastDetectedRows, db, pc, pageNum,
                   returned, nRuns, emitted, shown, storeError, dbBefore,
                   pdfLoaded, abandoned>>
    /\ UNCHANGED overlapVars
    /\ UNCHANGED searchVars
    /\ UNCHANGED navVars
    /\ UNCHANGED editorVars

\* a document of the given set loaded, nothing indexed yet
InitFrom(documents) ==
    /\ doc \in documents
    /\ words = <<>>
    /\ sentenceBuffer = <<>>
    /\ customTolerance = Null
    /\ lastDetectedRows = <<>>
    /\ db = <<>>
    /\ pc = "idle"
    /\ pageNum = 0
    /\ returned = <<>>
    /\ nRuns = 0
    /\ emitted = <<>>
    /\ ViewerIdle
    /\ SearchIdle

InitCluster == InitFrom(ClusterDocuments)

NextCluster ==
    \/ SetCustomTolerance
    \/ IndexPDF
    \/ ProcessPageStep
    \/ StoreClear
    \/ StoreBulkAdd

SpecCluster == InitCluster /\ [][NextCluster]_vars

---------------------------------------------------------------------------
(* Claims about the row clustering, under SpecCluster *)

\* the fragments of a row in a set
RowMembers(row) == {row[i] : i \in 1..Len(row)}

\* the Y of the fragment a row began with: fragments are assigned in ascending
\* projected Y, so it is the least Y of the row
AnchorY(row) ==
    CHOOSE y \in {f.y : f \in RowMembers(row)} : \A f \in RowMembers(row) : y <= f.y

\* C21: the rows groupTextItemsByRows returns are in ascending order of their
\* anchor Y, whatever order the page delivered its fragments in, and no
\* fragment of the page has a smaller projected Y than the anchor of row 1.
C21_RowsTopToBottom ==
    /\ \A k \in 1..(Len(lastDetectedRows) - 1) :
          AnchorY(lastDetectedRows[k]) <= AnchorY(lastDetectedRows[k + 1])
    /\ \A k \in 1..Len(lastDetectedRows) :
          \A f \in RowMembers(lastDetectedRows[k]) :
              AnchorY(lastDetectedRows[1]) <= f.y

\* three rows from a page that delivered its fragments from the largest
\* projected Y to the smallest
C21_Witness ==
    /\ doc[1].items = <<FragmentE, FragmentC, FragmentA>>
    /\ Len(lastDetectedRows) = 3
    /\ lastDetectedRows[1][1].str = FragmentA.str
    /\ lastDetectedRows[3][1].str = FragmentE.str

\* the fragments of all rows
AllFragments(rows) == UNION {RowMembers(rows[k]) : k \in 1..Len(rows)}

\* C22: on a page of two fragments and under a fixed tolerance t >= 0, the
\* fragments are in one row when their projected Y are at most t apart, the
\* distance t included, and in two rows otherwise.
C22_OneRowIffWithinTolerance ==
    [][(/\ ProcessPageStep
        /\ Len(doc[pageNum].items) = 2
        /\ customTolerance # Null
        /\ customTolerance[1] >= 0)
       => \E f, g \in AllFragments(lastDetectedRows') :
             /\ f.str = doc[pageNum].items[1].str /\ f.tx = doc[pageNum].items[1].tx
             /\ g.str = doc[pageNum].items[2].str /\ g.tx = doc[pageNum].items[2].tx
             /\ Len(lastDetectedRows') =
                    IF Abs(f.y - g.y) * 10 <= customTolerance[1] * Unit
                    THEN 1 ELSE 2]_vars

\* Y = 100.0 and Y = 100.4 under the tolerance 0.4: one row, on the boundary
C22_Witness ==
    /\ pc = "clear"
    /\ doc[1].items = <<FragmentA, FragmentB>>
    /\ customTolerance = <<4>>
    /\ Len(lastDetectedRows) = 1
    /\ \E f, g \in RowMembers(lastDetectedRows[1]) : f.y - g.y = (4 * Unit) \div 10

\* C26: every fragment of a row that has more than one lies within the
\* tolerance of the row's anchor Y, and no fragment lies within the tolerance
\* of the anchor of a row created before its own; so a fragment joins the
\* earliest row whose anchor is near enough, is measured against the anchor
\* and not against the row's later members, and opens a row only when no
\* anchor is near enough.
C26_FirstFitOnAnchors ==
    [][ProcessPageStep
       => LET rows == lastDetectedRows'
              tol == RowTolerance(doc[pageNum].items, customTolerance)
              near(f, k) == Abs(f.y - AnchorY(rows[k])) * tol.den <= tol.num * Unit
          IN  /\ Cardinality(AllFragments(rows)) = Len(doc[pageNum].items)
              /\ \A k \in 1..Len(rows) :
                    \A f \in RowMembers(rows[k]) :
                        /\ Len(rows[k]) > 1 => near(f, k)
                        /\ \A j \in 1..(k - 1) : ~near(f, j)]_vars

\* Y = 100.0, 101.0 and 101.2 under the tolerance 1.0: the third fragment is
\* 0.2 from the second, a member of row 1, and opens row 2 all the same
C26_Witness ==
    /\ pc = "clear"
    /\ customTolerance = <<10>>
    /\ Len(lastDetectedRows) = 2
    /\ {f.str : f \in RowMembers(lastDetectedRows[1])} = {FragmentA.str, FragmentC.str}
    /\ \E f \in RowMembers(lastDetectedRows[1]) :
          lastDetectedRows[2][1].y - f.y = (2 * Unit) \div 10

\* C27: the rows of a page are those of the tolerance t, where t is the
\* custom tolerance when one is set, 0 included, and otherwise the larger of 1
\* and a tenth of the mean of the page's positive fragment heights, with 12 for
\* the mean when no height is positive: fragments sharing a row are within t
\* of its anchor, and the anchors of two successive rows are more than t
\* apart.
C27_ToleranceInForce ==
    [][ProcessPageStep
       => LET rows == lastDetectedRows'
              items == doc[pageNum].items
              positive == {i \in 1..Len(items) : items[i].height > 0}
              total == SumSeq([i \in 1..Len(items) |->
                                  IF i \in positive THEN items[i].height ELSE 0])
              \* ten times the mean, as the fraction meanNum / meanDen
              meanNum == IF positive = {} THEN 12 ELSE total
              meanDen == IF positive = {} THEN 1 ELSE Cardinality(positive)
              \* within(d): d / Unit <= t
              within(d) ==
                  IF customTolerance # Null
                  THEN d * 10 <= customTolerance[1] * Unit
                  ELSE IF meanNum >= 10 * meanDen
                       THEN d * 10 * meanDen <= meanNum * Unit
                       ELSE d <= Unit
          IN  /\ \A k \in 1..Len(rows) :
                    \A f \in RowMembers(rows[k]) :
                        Len(rows[k]) > 1 => within(Abs(f.y - AnchorY(rows[k])))
              /\ \A k \in 1..(Len(rows) - 1) :
                    ~within(Abs(AnchorY(rows[k + 1]) - AnchorY(rows[k])))]_vars

\* no custom tolerance, heights 30 and 0, Y = 100.0 and 103.0: one row, the
\* distance being a tenth of the one positive height
C27_Witness ==
    /\ pc = "clear"
    /\ customTolerance = Null
    /\ doc[1].items = <<FragmentF, FragmentA>>
    /\ Len(lastDetectedRows) = 1
    /\ Len(lastDetectedRows[1]) = 2

\* C24 as stated: once setCustomTolerance has been given a negative value,
\* an indexing run that is started is rejected and shown as an error, and no
\* page is clustered under that tolerance.
C24_NegativeToleranceRejected ==
    [][(customTolerance # Null /\ customTolerance[1] < 0)
       => /\ ~ProcessPageStep
          /\ (IndexPDF => (pc' = "rejected" /\ shown' = "error"))]_vars

\* two fragments are in one row
SameRow(rows, f, g) ==
    \E k \in 1..Len(rows) : {f, g} \subseteq RowMembers(rows[k])

\* C28 as stated: under a custom tolerance of 0 or less, two fragments of a
\* page are in one row exactly when their projected Y are equal.
C28_IdenticalYShareRow ==
    [][(ProcessPageStep /\ customTolerance # Null /\ customTolerance[1] <= 0)
       => \A f, g \in AllFragments(lastDetectedRows') :
             SameRow(lastDetectedRows', f, g) <=> f.y = g.y]_vars

\* C28, amended: under a custom tolerance of 0 or less, two fragments of a
\* page are in one row only if their projected Y are equal; under the
\* tolerance 0 fragments of equal Y are in one row, and under a negative
\* tolerance every fragment is a row by itself, equal Y or not.
C28_NonPositiveTolerance ==
    [][(ProcessPageStep /\ customTolerance # Null /\ customTolerance[1] <= 0)
       => /\ \A f, g \in AllFragments(lastDetectedRows') :
                /\ SameRow(lastDetectedRows', f, g) => f.y = g.y
                /\ (customTolerance[1] = 0 /\ f.y = g.y)
                      => SameRow(lastDetectedRows', f, g)
          /\ customTolerance[1] < 0
                => \A k \in 1..Len(lastDetectedRows') : Len(lastDetectedRows'[k]) = 1]_vars

\* two fragments of equal Y in two rows under the tolerance -1
C28_Witness ==
    /\ pc = "clear"
    /\ customTolerance = <<-10>>
    /\ Len(lastDetectedRows) = 2
    /\ lastDetectedRows[1][1].y = lastDetectedRows[2][1].y

\* the 0-based places at which a token occurs in a text
Occurrences(full, token) ==
    {i \in 0..(Len(full) - Len(token)) : SubSeq(full, i + 1, i + Len(token)) = token}

\* the left and right edge of a token's box as C29 states them
ExpectedEdges(fragment, token) ==
    LET offset == CHOOSE i \in Occurrences(fragment.str, token) :
                      \A j \in Occurrences(fragment.str, token) : i <= j
        charWidth == (fragment.width * Unit) \div Len(fragment.str)
    IN  <<fragment.x + offset * charWidth,
          fragment.x + offset * charWidth + Len(token) * charWidth>>

RECURSIVE ExpectedRowEdges(_)
\* the same for the tokens of a row, fragment after fragment
ExpectedRowEdges(row) ==
    IF Len(row) = 0 THEN <<>>
    ELSE LET tokens == TokenizeText(Head(row).str)
         IN  [i \in 1..Len(tokens) |-> ExpectedEdges(Head(row), tokens[i])]
             \o ExpectedRowEdges(Tail(row))

\* C29: the box of every word runs from fragmentX + offset * (fragmentWidth /
\* textLength) to that plus tokenLength * (fragmentWidth / textLength), offset
\* being the first place at which the token occurs in its fragment's text.
C29_BoxFromFirstOccurrence ==
    [][ProcessPageStep
       => \A k \in 1..Len(lastDetectedRows') :
             LET rowWords == SelectSeq(words', LAMBDA w : w.page = pageNum /\ w.row = k)
                 edges == ExpectedRowEdges(lastDetectedRows'[k])
             IN  /\ Len(rowWords) = Len(edges)
                 /\ \A i \in 1..Len(edges) :
                       /\ rowWords[i].bbox[1] = edges[i][1]
                       /\ rowWords[i].bbox[3] = edges[i][2]]_vars

\* the two words of the fragment "a a": different places in the row, one box
C29_Witness ==
    \E i, j \in 1..Len(words) :
        /\ i < j
        /\ words[i].word = words[j].word
        /\ words[i].page = words[j].page /\ words[i].row = words[j].row
        /\ words[j].index = words[i].index + 1
        /\ words[i].bbox = words[j].bbox
        /\ \E f \in AllFragments(lastDetectedRows) :
              f.str = TextAA /\ words[i].bbox[1] = f.x

RECURSIVE RowOwners(_)
\* for every token of a row, fragment after fragment, the fragment it is in
RowOwners(row) ==
    IF Len(row) = 0 THEN <<>>
    ELSE [i \in 1..Len(TokenizeText(Head(row).str)) |-> Head(row)]
         \o RowOwners(Tail(row))

C30_ProjectedYFromNativeY ==
    \A f, g \in AllFragments(lastDetectedRows) :
        /\ f.ty = g.ty => f.y = g.y
        /\ f.ty < g.ty => f.y > g.y

\* C34: under a tolerance t >= 0, custom or default, the anchors of any two
\* rows of a page are more than t apart, and the projected Y of every fragment
\* of a row is at least the row's anchor and at most the anchor plus t.
C34_RowsSeparatedAndBounded ==
    [][ProcessPageStep
       => LET rows == lastDetectedRows'
              t == RowTolerance(doc[pageNum].items, customTolerance)
          IN  t.num >= 0
                 => /\ \A k, l \in 1..Len(rows) :
                          k # l => Abs(AnchorY(rows[k]) - AnchorY(rows[l])) * t.den
                                      > t.num * Unit
                    /\ \A k \in 1..Len(rows) :
                          \A f \in RowMembers(rows[k]) :
                              /\ AnchorY(rows[k]) <= f.y
                              /\ (f.y - AnchorY(rows[k])) * t.den <= t.num * Unit]_vars

\* Y = 100.0, 101.0 and 101.2 under the tolerance 0.2: row 2 is anchored at
\* 101.0 and holds the fragment at 101.2, at the upper end of its interval
C34_Witness ==
    /\ pc = "clear"
    /\ customTolerance = <<2>>
    /\ Len(lastDetectedRows) = 2
    /\ Len(lastDetectedRows[2]) = 2
    /\ AnchorY(lastDetectedRows[2]) - AnchorY(lastDetectedRows[1]) = Unit
    /\ \E f \in RowMembers(lastDetectedRows[2]) :
          f.y - AnchorY(lastDetectedRows[2]) = (2 * Unit) \div 10

\* a fragment of a row as the page delivered it, without its projection
AsDelivered(f) ==
    [str |-> f.str, tx |-> f.tx, ty |-> f.ty, width |-> f.width,
     height |-> f.height]

\* the places (row, position) of the rows that hold the given item
PlacesOf(rows, item) ==
    { p \in UNION { {<<k, j>> : j \in 1..Len(rows[k])} : k \in 1..Len(rows) } :
        AsDelivered(rows[p[1]][p[2]]) = item }

\* C33: the rows groupTextItemsByRows returns partition the fragments of the
\* page: every fragment delivered is at exactly one place of one row, the rows
\* hold nothing else, no row is empty, a page without fragments gives no row
\* and a page with one fragment gives one row holding it.
C33_RowsPartitionFragments ==
    [][ProcessPageStep
       => LET items == doc[pageNum].items
              rows == lastDetectedRows'
          IN  /\ \A i \in 1..Len(items) :
                    Cardinality(PlacesOf(rows, items[i]))
                        = Cardinality({j \in 1..Len(items) : items[j] = items[i]})
              /\ SumSeq([k \in 1..Len(rows) |-> Len(rows[k])]) = Len(items)
              /\ \A k \in 1..Len(rows) : Len(rows[k]) > 0
              /\ Len(items) = 0 => Len(rows) = 0
              /\ Len(items) = 1
                    => /\ Len(rows) = 1
                       /\ Len(rows[1]) = 1
                       /\ AsDelivered(rows[1][1]) = items[1]]_vars

\* three fragments clustered into two rows, one of them taking two
C33_Witness ==
    /\ pc = "clear"
    /\ Len(doc[1].items) = 3
    /\ Len(lastDetectedRows) = 2
    /\ \E k \in 1..2 : Len(lastDetectedRows[k]) = 2

---------------------------------------------------------------------------
(* The manual row editor of PDFViewer *)

MaxBoundaries == 2

\* how many times the Add Boundary button is pressed
MaxListeners == 2

\* where on the canvas the user may click: Y = 100.7 and Y = 110.0
ClickYs == {(1007 * Unit) \div 10, 110 * Unit}

RECURSIVE InsertNumber(_, _)
InsertNumber(sorted, y) ==
    IF Len(sorted) = 0 THEN <<y>>
    ELSE IF sorted[Len(sorted)] <= y THEN Append(sorted, y)
    ELSE Append(InsertNumber(SubSeq(sorted, 1, Len(sorted) - 1), y),
                sorted[Len(sorted)])

\* detectedRows.map(row => row.length > 0 ? row[0].y : 0).filter(y => y > 0)
InitializeManualBoundariesFromCurrentRows(detectedRows) ==
    SelectSeq([k \in 1..Len(detectedRows) |->
                  IF Len(detectedRows[k]) > 0 THEN detectedRows[k][1].y ELSE 0],
              IsPositive)

\* the Manual Rows button, after a re-index has ended and left its rows in
\* detectedRows: the editor opens with one boundary per detected row
OpenManualRowEditor ==
    /\ pdfLoaded
    /\ pc = "done"
    /\ ~editorOpen
    /\ Len(lastDetectedRows) > 0
    /\ editorOpen' = TRUE
    /\ manualRowBoundaries' = InitializeManualBoundariesFromCurrentRows(lastDetectedRows)
    /\ UNCHANGED <<doc, words, sentenceBuffer, customTolerance, lastDetectedRows,
                   db, pc, pageNum, returned, nRuns, emitted, shown, storeError,
                   dbBefore, pdfLoaded, abandoned, manualRowMode, clickListeners>>
    /\ UNCHANGED overlapVars
    /\ UNCHANGED searchVars
    /\ UNCHANGED navVars

\* the Clear All button of the editor
ClearAllManualBoundaries ==
    /\ editorOpen
    /\ manualRowBoundaries # <<>>
    /\ manualRowBoundaries' = <<>>
    /\ UNCHANGED <<doc, words, sentenceBuffer, customTolerance, lastDetectedRows,
                   db, pc, pageNum, returned, nRuns, emitted, shown, storeError,
                   dbBefore, pdfLoaded, abandoned, manualRowMode, editorOpen,
                   clickListeners>>
    /\ UNCHANGED overlapVars
    /\ UNCHANGED searchVars
    /\ UNCHANGED navVars

\* the Add Boundary button of the editor: the mode is set and one more click
\* listener is put on the canvas, bound anew, which no removeEventListener with
\* another bind takes off again
EnterAddBoundaryMode ==
    /\ editorOpen
    /\ ~manualRowMode
    /\ clickListeners < MaxListeners
    /\ manualRowMode' = TRUE
    /\ clickListeners' = clickListeners + 1
    /\ UNCHANGED <<doc, words, sentenceBuffer, customTolerance, lastDetectedRows,
                   db, pc, pageNum, returned, nRuns, emitted, shown, storeError,
                   dbBefore, pdfLoaded, abandoned, manualRowBoundaries, editorOpen>>
    /\ UNCHANGED overlapVars
    /\ UNCHANGED searchVars
    /\ UNCHANGED navVars

\* the list left as pushed, without the sort
SortNumbers_None(s) == s

RECURSIVE SortNumbers(_)
\* manualRowBoundaries.sort((a, b) => a - b)
SortNumbers(s) ==
    IF Len(s) = 0 THEN <<>>
    ELSE InsertNumber(SortNumbers(SubSeq(s, 1, Len(s) - 1)), s[Len(s)])

\* handleManualRowClick as one listener runs it: nothing outside the mode;
\* in it the Y of the click is pushed, the list sorted and the mode left
ManualRowClick(boundaries, mode, y) ==
    IF ~mode THEN [boundaries |-> boundaries, mode |-> mode]
    ELSE [boundaries |-> SortNumbers(Append(boundaries, y)), mode |-> FALSE]

RECURSIVE DispatchClick(_, _, _, _)
\* one click on the canvas, handed to each of the n listeners in turn
DispatchClick(boundaries, mode, y, n) ==
    IF n = 0 THEN [boundaries |-> boundaries, mode |-> mode]
    ELSE LET r == ManualRowClick(boundaries, mode, y)
         IN  DispatchClick(r.boundaries, r.mode, y, n - 1)

\* a click on the canvas while the mode is on
HandleManualRowClick ==
    /\ manualRowMode
    /\ Len(manualRowBoundaries) < MaxBoundaries
    /\ \E y \in ClickYs :
          LET r == DispatchClick(manualRowBoundaries, manualRowMode, y,
                                 clickListeners)
          IN  /\ manualRowBoundaries' = r.boundaries
              /\ manualRowMode' = r.mode
    /\ UNCHANGED <<doc, words, sentenceBuffer, customTolerance, lastDetectedRows,
                   db, pc, pageNum, returned, nRuns, emitted, shown, storeError,
                   dbBefore, pdfLoaded, abandoned, editorOpen, clickListeners>>
    /\ UNCHANGED overlapVars
    /\ UNCHANGED searchVars
    /\ UNCHANGED navVars

\* splice(index, 1) with index counted from 1
Splice(s, index) == SubSeq(s, 1, index - 1) \o SubSeq(s, index + 1, Len(s))

\* a Remove button of the editor's list: removeManualBoundary(index)
RemoveManualBoundary ==
    /\ editorOpen
    /\ \E index \in 1..Len(manualRowBoundaries) :
          manualRowBoundaries' = Splice(manualRowBoundaries, index)
    /\ UNCHANGED <<doc, words, sentenceBuffer, customTolerance, lastDetectedRows,
                   db, pc, pageNum, returned, nRuns, emitted, shown, storeError,
                   dbBefore, pdfLoaded, abandoned, manualRowMode, editorOpen,
                   clickListeners>>
    /\ UNCHANGED overlapVars
    /\ UNCHANGED searchVars
    /\ UNCHANGED navVars

\* the Close and Cancel buttons of the editor
ExitRowEditingMode ==
    /\ editorOpen
    /\ editorOpen' = FALSE
    /\ manualRowMode' = FALSE
    /\ UNCHANGED <<doc, words, sentenceBuffer, customTolerance, lastDetectedRows,
                   db, pc, pageNum, returned, nRuns, emitted, shown, storeError,
                   dbBefore, pdfLoaded, abandoned, manualRowBoundaries,
                   clickListeners>>
    /\ UNCHANGED overlapVars
    /\ UNCHANGED searchVars
    /\ UNCHANGED navVars

\* the Apply Changes button.  PDFIndexer has no method setManualRowBoundaries:
\* the call throws a TypeError inside the try block, before indexPDF is
\* reached, and the catch block shows "Manual row indexing failed"
ApplyManualRowChanges ==
    /\ editorOpen
    /\ Len(manualRowBoundaries) > 0
    /\ shown' = "manualFailed"
    /\ UNCHANGED <<doc, words, sentenceBuffer, customTolerance, lastDetectedRows,
                   db, pc, pageNum, returned, nRuns, emitted, storeError,
                   dbBefore, pdfLoaded, abandoned>>
    /\ UNCHANGED editorVars
    /\ UNCHANGED overlapVars
    /\ UNCHANGED searchVars
    /\ UNCHANGED navVars

ManualDocuments ==
    { <<ClusterPage(its)>> :
        its \in { <<FragmentA, FragmentC>>, <<FragmentF, FragmentA>>,
                  <<FragmentA, FragmentB, FragmentD>> } }

InitManual == InitFrom(ManualDocuments)

NextManual ==
    \/ ReindexWithNewTolerance
    \/ ProcessPageStep
    \/ StoreClear
    \/ StoreBulkAdd
    \/ OpenManualRowEditor
    \/ ClearAllManualBoundaries
    \/ EnterAddBoundaryMode
    \/ HandleManualRowClick
    \/ RemoveManualBoundary
    \/ ExitRowEditingMode
    \/ ApplyManualRowChanges

SpecManual == InitManual /\ [][NextManual]_vars

\* C23 as stated: once manual boundaries have been applied, the next indexing
\* run puts two fragments of a page in different rows when a boundary lies
\* between their Y, and in one row when no boundary lies between or at
\* their Y, whatever the tolerance.
C23_ManualBoundariesDecideRows ==
    [][(ProcessPageStep /\ shown = "manualFailed")
       => \A f, g \in AllFragments(lastDetectedRows') :
             LET between == {i \in 1..Len(manualRowBoundaries) :
                                /\ f.y < manualRowBoundaries[i]
                                /\ manualRowBoundaries[i] < g.y}
                 around == {i \in 1..Len(manualRowBoundaries) :
                               /\ f.y <= manualRowBoundaries[i]
                               /\ manualRowBoundaries[i] <= g.y}
                 together == \E k \in 1..Len(lastDetectedRows') :
                                {f, g} \subseteq RowMembers(lastDetectedRows'[k])
             IN  f.y <= g.y =>
                    /\ (between # {} => ~together)
                    /\ (around = {} => together)]_vars

IsSortedAscending(s) == \A i, j \in 1..Len(s) : i < j => s[i] <= s[j]

\* C32: the manual boundary list is in ascending order in every state of the
\* row editor, as initialised from the detected rows and after every click and
\* every removal, and a canvas click made in add-boundary mode makes the list
\* one boundary longer.
C32_BoundariesSorted ==
    [][/\ IsSortedAscending(manualRowBoundaries)
       /\ IsSortedAscending(manualRowBoundaries')
       /\ HandleManualRowClick
             => Len(manualRowBoundaries') = Len(manualRowBoundaries) + 1]_vars

\* the editor opened on rows detected at 100.0 and 103.0, the list cut down
\* to 103.0, and the second press of Add Boundary followed by a click at
\* 100.7, which has gone in ahead of 103.0 with two listeners on the canvas
C32_Witness ==
    /\ editorOpen
    /\ ~manualRowMode
    /\ clickListeners = 2
    /\ manualRowBoundaries = <<(1007 * Unit) \div 10, 103 * Unit>>

---------------------------------------------------------------------------
(* Page navigation by keyboard.  The constructor and every showViewerContent
   call attachEventListeners, which puts one more keydown listener on document;
   none is ever removed, and each calls handleKeyboard of the same viewer. *)

MaxLoads == 4
MaxNavPages == 6

Keys == {"ArrowLeft", "ArrowRight", "Home", "End"}

\* documents of 1 to MaxNavPages pages without text
NavDocuments ==
    { [i \in 1..n |-> Page("none", <<>>)] : n \in 1..MaxNavPages }

\* handleKeyboard(e): the page one call leaves in currentPage
HandleKeyboard(key, page, total, active) ==
    IF ~active THEN page
    ELSE CASE key = "ArrowLeft" -> IF page > 1 THEN page - 1 ELSE page
           [] key = "ArrowRight" -> IF page < total THEN page + 1 ELSE page
           [] key = "Home" -> 1
           [] key = "End" -> total
           [] OTHER -> page

RECURSIVE DispatchKeydown(_, _, _, _, _)
\* the keydown event handed to each of the n listeners in turn
DispatchKeydown(key, page, total, active, n) ==
    IF n = 0 THEN page
    ELSE DispatchKeydown(key, HandleKeyboard(key, page, total, active), total,
                         active, n - 1)

\* loadPDF(file) for a file pdf.js can read: showLoading, getDocument,
\* showViewerContent.  showLoading replaces the markup of the viewer section,
\* the highlight overlay with it.
LoadPDF ==
    /\ keydownListeners <= MaxLoads
    /\ \E d \in NavDocuments :
          /\ doc' = d
          /\ totalPages' = Len(d)
    /\ pdfLoaded' = TRUE
    /\ currentPage' = 1
    /\ viewerActive' = TRUE
    /\ keydownListeners' = keydownListeners + 1
    /\ highlightDots' = <<>>
    /\ UNCHANGED <<words, sentenceBuffer, customTolerance, lastDetectedRows, db,
                   pc, pageNum, returned, nRuns, emitted, shown, storeError,
                   dbBefore, abandoned, currentSearchResults>>
    /\ UNCHANGED overlapVars
    /\ UNCHANGED engineVars
    /\ UNCHANGED editorVars

\* loadPDF(file) for a file pdf.js rejects: showLoading, then showError
LoadPDFFails ==
    /\ viewerActive' = TRUE
    /\ shown' = "error"
    /\ highlightDots' = <<>>
    /\ UNCHANGED <<doc, words, sentenceBuffer, customTolerance, lastDetectedRows,
                   db, pc, pageNum, returned, nRuns, emitted, storeError,
                   dbBefore, pdfLoaded, abandoned, currentPage, totalPages,
                   keydownListeners, currentSearchResults>>
    /\ UNCHANGED overlapVars
    /\ UNCHANGED engineVars
    /\ UNCHANGED editorVars

\* one key press: the keydown event reaches every listener on document
KeyDown(key) ==
    /\ currentPage' = DispatchKeydown(key, currentPage, totalPages, viewerActive,
                                      keydownListeners)
    /\ UNCHANGED <<doc, words, sentenceBuffer, customTolerance, lastDetectedRows,
                   db, pc, pageNum, returned, nRuns, emitted, shown, storeError,
                   dbBefore, pdfLoaded, abandoned, totalPages, viewerActive,
                   keydownListeners>>
    /\ UNCHANGED overlapVars
    /\ UNCHANGED searchVars
    /\ UNCHANGED editorVars

\* new PDFViewer() at DOMContentLoaded: no document yet
InitNav ==
    /\ doc = <<>>
    /\ words = <<>>
    /\ sentenceBuffer = <<>>
    /\ customTolerance = Null
    /\ lastDetectedRows = <<>>
    /\ db = <<>>
    /\ pc = "idle"
    /\ pageNum = 0
    /\ returned = <<>>
    /\ nRuns = 0
    /\ emitted = <<>>
    /\ shown = "none"
    /\ storeError = FALSE
    /\ dbBefore = <<>>
    /\ pdfLoaded = FALSE
    /\ abandoned = FALSE
    /\ pc2 = "idle"
    /\ pageNum2 = 0
    /\ returned2 = <<>>
    /\ custom2 = Null
    /\ manualRowBoundaries = <<>>
    /\ manualRowMode = FALSE
    /\ editorOpen = FALSE
    /\ clickListeners = 0
    /\ currentPage = 1
    /\ totalPages = 0
    /\ viewerActive = FALSE
    /\ keydownListeners = 1
    /\ SearchIdle

NextNav ==
    \/ LoadPDF
    \/ LoadPDFFails
    \/ ResetViewer
    \/ KeyDown("ArrowLeft")
    \/ KeyDown("ArrowRight")
    \/ KeyDown("Home")
    \/ KeyDown("End")

SpecNav == InitNav /\ [][NextNav]_vars

\* C25 as stated: with the viewer active and a document of N pages loaded, one
\* ArrowRight press on page p < N leaves page p + 1, one ArrowLeft press on
\* page p > 1 leaves page p - 1, Home leaves page 1 and End page N, however
\* many documents have been loaded before.
C25_KeysStepOnePage ==
    [][(viewerActive /\ pdfLoaded)
       => /\ (KeyDown("ArrowRight") /\ currentPage < totalPages)
                => currentPage' = currentPage + 1
          /\ (KeyDown("ArrowLeft") /\ currentPage > 1)
                => currentPage' = currentPage - 1
          /\ KeyDown("Home") => currentPage' = 1
          /\ KeyDown("End") => currentPage' = totalPages]_vars

---------------------------------------------------------------------------
(* Search results, their highlights and page navigation *)

\* the Clear button of the search box
ClearSearch ==
    /\ pdfLoaded
    /\ viewerActive
    /\ currentSearchResults' = <<>>
    /\ highlightDots' = <<>>
    /\ searchStatus' = "none"
    /\ UNCHANGED <<sWords, isIndexBuilt, sIndex, spc, everBuilt, initialized,
                   lastCall, searchTerm, lunrHits, results>>
    /\ UNCHANGED indexerVars

\* a click on an item of the results list: jumpToResult(page, row, index)
JumpToResult ==
    /\ pdfLoaded
    /\ viewerActive
    /\ \E i \in 1..Len(currentSearchResults) :
          currentPage' = currentSearchResults[i].page
    /\ highlightDots' = RenderHighlights(currentSearchResults, currentPage')
    /\ UNCHANGED <<doc, words, sentenceBuffer, customTolerance, lastDetectedRows,
                   db, pc, pageNum, returned, nRuns, emitted, shown, storeError,
                   dbBefore, pdfLoaded, abandoned, totalPages, viewerActive,
                   keydownListeners, currentSearchResults>>
    /\ UNCHANGED overlapVars
    /\ UNCHANGED engineVars
    /\ UNCHANGED editorVars

\* the Previous button
PreviousPage ==
    /\ pdfLoaded
    /\ viewerActive
    /\ currentPage > 1
    /\ currentPage' = currentPage - 1
    /\ UNCHANGED <<doc, words, sentenceBuffer, customTolerance, lastDetectedRows,
                   db, pc, pageNum, returned, nRuns, emitted, shown, storeError,
                   dbBefore, pdfLoaded, abandoned, totalPages, viewerActive,
                   keydownListeners>>
    /\ UNCHANGED overlapVars
    /\ UNCHANGED searchVars
    /\ UNCHANGED editorVars

\* the Next button
NextPage ==
    /\ pdfLoaded
    /\ viewerActive
    /\ currentPage < totalPages
    /\ currentPage' = currentPage + 1
    /\ UNCHANGED <<doc, words, sentenceBuffer, customTolerance, lastDetectedRows,
                   db, pc, pageNum, returned, nRuns, emitted, shown, storeError,
                   dbBefore, pdfLoaded, abandoned, totalPages, viewerActive,
                   keydownListeners>>
    /\ UNCHANGED overlapVars
    /\ UNCHANGED searchVars
    /\ UNCHANGED editorVars

\* a document loaded and indexed, the search box, the results list, the page
\* buttons and the keyboard
NextHighlight ==
    \/ PerformSearch
    \/ ClearSearch
    \/ JumpToResult
    \/ PreviousPage
    \/ NextPage
    \/ KeyDown("ArrowLeft")
    \/ KeyDown("ArrowRight")
    \/ KeyDown("Home")
    \/ KeyDown("End")

SpecHighlight == InitSearch /\ [][NextHighlight]_vars

C36_CurrentPageInRange ==
    /\ currentPage >= 1
    /\ pdfLoaded => currentPage <= totalPages

\* C37 as stated: whenever the last initialize call returned true, the index
\* has been built: isIndexBuilt is true and index is not null.
C37_TrueOnlyIfBuilt ==
    initialized = "true" => (isIndexBuilt /\ sIndex # Null)

---------------------------------------------------------------------------
(* The search engine beside indexing runs: the store replaced under it *)

\* one page whose two fragments make one row at the default tolerance and at
\* 2.0 px, and two rows at 1.0 px
FreshDocuments == { <<ClusterPage(<<FragmentA, FragmentE>>)>> }

\* the document indexed at the default tolerance, and a search engine either
\* new or holding those records with its index built
InitFresh ==
    /\ doc \in FreshDocuments
    /\ words = <<>>
    /\ sentenceBuffer = <<>>
    /\ customTolerance = Null
    /\ lastDetectedRows = <<>>
    /\ db = IndexPages(<<>>, <<>>, doc, 1, customTolerance).words
    /\ pc = "idle"
    /\ pageNum = 0
    /\ returned = <<>>
    /\ nRuns = 0
    /\ emitted = <<>>
    /\ ViewerIdle
    /\ \/ SearchIdle
       \/ /\ sWords = db
          /\ isIndexBuilt = TRUE
          /\ sIndex = <<Len(db)>>
          /\ spc = "idle"
          /\ everBuilt = TRUE
          /\ initialized = "true"
          /\ lastCall = "none"
          /\ searchStatus = "none"
          /\ searchTerm = <<>>
          /\ lunrHits = <<>>
          /\ results = <<>>
          /\ currentSearchResults = <<>>
          /\ highlightDots = <<>>

\* re-indexing runs, refresh and direct searches
NextRefresh ==
    \/ ReindexWithNewTolerance
    \/ ProcessPageStep
    \/ StoreClear
    \/ StoreBulkAdd
    \/ Search
    \/ RefreshStart
    \/ RefreshFinish

SpecRefresh == InitFresh /\ [][NextRefresh]_vars

\* indexing and re-indexing runs, and the viewer's search box
NextLatest ==
    \/ IndexPDF
    \/ ReindexWithNewTolerance
    \/ ProcessPageStep
    \/ StoreClear
    \/ StoreBulkAdd
    \/ PerformSearch

SpecLatest == InitFresh /\ [][NextLatest]_vars

\* the word record a search result carries
RecordOf(r) ==
    [word |-> r.word, page |-> r.page, row |-> r.row, index |-> r.index,
     bbox |-> r.bbox, sentence |-> r.sentence]

IsRecordOf(r, ws) == \E k \in 1..Len(ws) : ws[k] = RecordOf(r)

====
